---- MODULE Spec2Model ----
(***************************************************************************)
(* Model of src/gallery-widget.js: the TattooGallery class (constructor,   *)
(* init, fetchImages, renderGallery, setupLazyLoading, openLightbox,       *)
(* handleSwipe, updateLightboxImage, prevImage, nextImage, closeLightbox)  *)
(* together with the parts of the page it reads and writes: the document's *)
(* list of .tg-lightbox elements, the document's keydown listeners,        *)
(* body.style.overflow, the pending 300 ms removal timers, the thumbnails  *)
(* of each grid and the targets of each IntersectionObserver.              *)
(*                                                                         *)
(* Spec is the widget driven by the page, SpecApi adds a host script that  *)
(* calls init() again, SpecLazy is the grid with its lazy loader and       *)
(* SpecMedia adds the load and error events of the lightbox images.        *)
(*                                                                         *)
(* currentImageIndex and the index of a grid item are 0-based as in the    *)
(* source; TLA+ sequences are 1-based, so this.images[i] is images[g][i+1].*)
(*                                                                         *)
(* The CSS classes toggled for the animations (tg-visible,                 *)
(* tg-lightbox-visible) and this.columns are written but never read by the *)
(* code and are not part of the state here.                                *)
(***************************************************************************)
EXTENDS Integers, Sequences, FiniteSets, TLC

\* ---------------------------------------------------------------- bounds
Galleries == {1, 2}                 \* the Gallery Instances on the page
MaxOpens == 2                       \* lightbox elements ever created
MaxReinits == 1                     \* init() calls after the constructors' own

\* the image lists the listing endpoint answers with for the folder of a gallery
\* (ids of descriptors): the first folder holds no or three images, the second
\* no or one
ImageLists(g) == IF g = 1 THEN { <<>>, <<"b", "a", "c">> } ELSE { <<>>, <<"d">> }

\* values of container.dataset.folderId ("" stands for a missing or empty one)
FolderIds == {"", "F1"}

\* const swipeThreshold: minimum horizontal distance for a swipe
swipeThreshold == 50

\* touch gestures: the screen positions (screenX, screenY) of the touchstart (a)
\* and of the touchend (b)
Touch(x, y) == [x |-> x, y |-> y]
Gestures ==
  { [a |-> Touch(51, 0),   b |-> Touch(0, 0)],      \* left, just over the threshold
    [a |-> Touch(50, 0),   b |-> Touch(0, 0)],      \* left, exactly the threshold
    [a |-> Touch(0, 0),    b |-> Touch(120, 0)],    \* right, long
    [a |-> Touch(60, 200), b |-> Touch(0, 0)] }     \* up by 200 and 60 to the left

\* e.key of a keydown event
Keys == {"Escape", "ArrowLeft", "ArrowRight", "Enter"}

\* what fetch() settles with: a rejection, or a response with a status and a body
Responses(g) ==
  { [rejected |-> TRUE,  status |-> 0,   error |-> FALSE, data |-> <<>>],
    [rejected |-> FALSE, status |-> 500, error |-> FALSE, data |-> <<>>],
    [rejected |-> FALSE, status |-> 200, error |-> TRUE,  data |-> <<>>] }
  \cup { [rejected |-> FALSE, status |-> 200, error |-> FALSE, data |-> l] : l \in ImageLists(g) }

\* no fetch has settled yet
NoResponse == [rejected |-> FALSE, status |-> 0, error |-> FALSE, data |-> <<>>]

MissingMsg == "Missing data-folder-id attribute"
FailedMsg == "Failed to load gallery. Please try again later."

\* ----------------------------------------------------------------- state
VARIABLES
  folderId,           \* [g] this.folderId
  images,             \* [g] this.images
  currentImageIndex,  \* [g] this.currentImageIndex
  keyHandler,         \* [g] this.keyHandler: id of the closure, 0 = undefined
  container,          \* [g] what this.container.innerHTML shows: [cls, msg]
  grid,               \* [g] the .tg-item elements of the container, in order
  pending,            \* [g] init() runs awaiting their fetch
  doc,                \* the .tg-lightbox elements of document.body, in document order
  listeners,          \* the keydown listeners of document, in registration order
  overflow,           \* document.body.style.overflow
  timers,             \* the elements with a pending removal timer, oldest timer first
  nextId,             \* id of the next lightbox element / keyHandler closure
  requests,           \* history: [g] network requests issued
  everLoading,        \* history: [g] the loading state was shown
  last,               \* history: the most recent method invocation
  afterClose,         \* history: the invocation before last was a closeLightbox()
  thumbs,             \* [g] the .tg-img elements of the grid items, in order
  targets,            \* [g] the positions of the thumbnails the observer of g observes
  observers,          \* history: [g] IntersectionObservers constructed
  settledWith         \* history: [g] what the latest settled fetch settled with

vars == << folderId, images, currentImageIndex, keyHandler, container,
           grid, pending, doc, listeners, overflow, timers, nextId,
           requests, everLoading, last, afterClose,
           thumbs, targets, observers, settledWith >>

Range(s) == { s[i] : i \in 1..Len(s) }

\* a method invocation: arg is the index passed to openLightbox, and the value of
\* currentImageIndex at the call for the other methods; via is the lightbox whose
\* control or key handler made a closeLightbox() call while it was open (else 0);
\* key is e.key when a key handler made the call, count the calls of fn the same
\* event has made, wasOpen whether an open lightbox existed when the event began,
\* item the 0-based position of the grid item whose click made the call (else -1);
\* dx and dy are the displacements startX - endX and startY - endY of the gesture
\* when the touchend listener made the call (else 0), others the calls of other
\* methods than fn that the same event has made
NoCall == [fn |-> "none", g |-> 0, arg |-> 0, via |-> 0, key |-> "", count |-> 0,
           wasOpen |-> FALSE, item |-> -1, dx |-> 0, dy |-> 0, others |-> 0]

Blank == [cls |-> "", msg |-> ""]

\* ------------------------------------------------- container presentations
showLoading == [cls |-> "tg-loading", msg |-> "Loading gallery..."]
showEmpty == [cls |-> "tg-empty", msg |-> "No images found in this gallery"]
showError(message) == [cls |-> "tg-error", msg |-> message]
GridShown == [cls |-> "tg-grid", msg |-> ""]

\* ------------------------------------------------------------- the page
\* The part of the state the lightbox methods read and write, as one record
\* that is threaded through the calls an event handler makes.
Page ==
  [ idx |-> currentImageIndex, keyHandler |-> keyHandler, doc |-> doc,
    listeners |-> listeners, overflow |-> overflow, timers |-> timers,
    nextId |-> nextId, log |-> <<>> ]

\* document.querySelector('.tg-lightbox'): the first match in document order
\* (position in doc), 0 for null
querySelector(d) == IF Len(d) = 0 THEN 0 ELSE 1

\* position in d of the element with this id, 0 when it is not in the document
PosOf(d, id) ==
  IF \E p \in 1..Len(d) : d[p].id = id
  THEN CHOOSE p \in 1..Len(d) : d[p].id = id
  ELSE 0

\* a lightbox that is in the document and that no closeLightbox() has found yet
IsOpen(w, id) == PosOf(w.doc, id) # 0 /\ id \notin Range(w.timers)

\* updateLightboxImage(lightbox): pos is the element's position in w.doc (0: null)
updateLightboxImage(w, g, pos) ==
  IF pos = 0 THEN w
  ELSE LET i == w.idx[g]
           n == Len(images[g])
           lb == w.doc[pos]
       IN IF i + 1 \notin 1..n
          \* image is undefined: opacity is set, then image.id throws a TypeError
          THEN [w EXCEPT !.doc[pos] = [lb EXCEPT !.opacity = "0"]]
          ELSE [w EXCEPT !.doc[pos] =
                  [lb EXCEPT !.opacity = "0",
                             !.src = images[g][i + 1],
                             !.counter = << i + 1, n >>,
                             !.prev = IF i = 0 THEN "none" ELSE "flex",
                             !.next = IF i = n - 1 THEN "none" ELSE "flex"]]

Call(fn, g, arg, via) ==
  [fn |-> fn, g |-> g, arg |-> arg, via |-> via, key |-> "", count |-> 0,
   wasOpen |-> FALSE, item |-> -1, dx |-> 0, dy |-> 0, others |-> 0]

\* prevImage()
prevImage(w, g) ==
  LET w1 == [w EXCEPT !.log = Append(@, Call("prev", g, w.idx[g], 0))]
  IN IF w1.idx[g] > 0
     THEN LET w2 == [w1 EXCEPT !.idx[g] = @ - 1]
          IN updateLightboxImage(w2, g, querySelector(w2.doc))
     ELSE w1

\* nextImage() with a wraparound at the last image
nextImageWraps(w, g) ==
  LET w1 == [w EXCEPT !.log = Append(@, Call("next", g, w.idx[g], 0))]
      w2 == [w1 EXCEPT !.idx[g] = (@ + 1) % Len(images[g])]
  IN updateLightboxImage(w2, g, querySelector(w2.doc))

\* nextImage()
nextImage(w, g) ==
  LET w1 == [w EXCEPT !.log = Append(@, Call("next", g, w.idx[g], 0))]
  IN IF w1.idx[g] < Len(images[g]) - 1
     THEN LET w2 == [w1 EXCEPT !.idx[g] = @ + 1]
          IN updateLightboxImage(w2, g, querySelector(w2.doc))
     ELSE w1

\* closeLightbox() without document.body.style.overflow = ''
closeLightboxKeepsLock(w, g, via) ==
  LET pos == querySelector(w.doc)
      found == IF pos = 0 THEN 0 ELSE w.doc[pos].id
      w1 == [w EXCEPT !.log = Append(@, Call("close", g, w.idx[g],
                                              IF IsOpen(w, via) THEN via ELSE 0))]
  IN IF pos = 0 THEN w1
     ELSE [w1 EXCEPT
             !.listeners = SelectSeq(@, LAMBDA h : h.id # w.keyHandler[g]),
             !.timers = IF found \in Range(@) THEN @ ELSE Append(@, found)]

\* closeLightbox(); via is the lightbox whose control or key handler made the call
closeLightbox(w, g, via) ==
  LET pos == querySelector(w.doc)
      found == IF pos = 0 THEN 0 ELSE w.doc[pos].id
      w1 == [w EXCEPT !.log = Append(@, Call("close", g, w.idx[g],
                                              IF IsOpen(w, via) THEN via ELSE 0))]
  IN IF pos = 0 THEN w1
     ELSE [w1 EXCEPT
             !.listeners = SelectSeq(@, LAMBDA h : h.id # w.keyHandler[g]),
             !.overflow = "",
             \* setTimeout(() => lightbox.remove(), 300): the timers' delays are
             \* equal, so they fire in the order set; a further timer on an element
             \* that has one only repeats remove(), a no-op when it fires
             !.timers = IF found \in Range(@) THEN @ ELSE Append(@, found)]

\* openLightbox(index) that returns at once when a lightbox is in the document
openLightboxOnlyWhenNone(w, g, index) ==
  LET id == w.nextId
      lightbox == [id |-> id, g |-> g, src |-> "", counter |-> << 0, 0 >>,
                   prev |-> "", next |-> "", opacity |-> ""]
      w0 == [w EXCEPT !.log = Append(@, Call("open", g, index, 0))]
      w1 == [w0 EXCEPT !.idx[g] = index,
                       !.doc = Append(@, lightbox),
                       !.overflow = "hidden",
                       !.nextId = @ + 1]
      w2 == updateLightboxImage(w1, g, Len(w1.doc))
  IN IF querySelector(w.doc) # 0 THEN w0
     ELSE [w2 EXCEPT !.keyHandler[g] = id,
                     !.listeners = Append(@, [id |-> id, g |-> g])]

\* openLightbox(index)
openLightbox(w, g, index) ==
  LET id == w.nextId
      lightbox == [id |-> id, g |-> g, src |-> "", counter |-> << 0, 0 >>,
                   prev |-> "", next |-> "", opacity |-> ""]
      w1 == [w EXCEPT !.log = Append(@, Call("open", g, index, 0)),
                      !.idx[g] = index,
                      !.doc = Append(@, lightbox),
                      !.overflow = "hidden",
                      !.nextId = @ + 1]
      w2 == updateLightboxImage(w1, g, Len(w1.doc))
  IN [w2 EXCEPT !.keyHandler[g] = id,
                !.listeners = Append(@, [id |-> id, g |-> g])]

\* img.onload of the image of the lightbox at position p
imgOnLoad(w, p) == [w EXCEPT !.doc[p].opacity = "1"]

\* an img.onerror that also closes the lightbox
imgOnErrorCloses(w, p) ==
  closeLightbox([w EXCEPT !.doc[p].opacity = "0.3"], w.doc[p].g, w.doc[p].id)

\* img.onerror of the image of the lightbox at position p
imgOnError(w, p) == [w EXCEPT !.doc[p].opacity = "0.3"]

Abs(x) == IF x < 0 THEN -x ELSE x

\* handleSwipe(startX, endX) with the two directions exchanged
handleSwipeReversed(w, g, startX, endX) ==
  LET diff == startX - endX
  IN IF Abs(diff) > swipeThreshold
     THEN IF diff > 0 THEN prevImage(w, g) ELSE nextImage(w, g)
     ELSE w

\* handleSwipe(startX, endX)
handleSwipe(w, g, startX, endX) ==
  LET diff == startX - endX
  IN IF Abs(diff) > swipeThreshold
     THEN IF diff > 0 THEN nextImage(w, g) ELSE prevImage(w, g)
     ELSE w

\* this.keyHandler, the closure h registered by openLightbox
runKeyHandler(w, h, key) ==
  LET w1 == IF key = "Escape" THEN closeLightbox(w, h.g, h.id) ELSE w
      w2 == IF key = "ArrowLeft" THEN prevImage(w1, h.g) ELSE w1
  IN IF key = "ArrowRight" THEN nextImage(w2, h.g) ELSE w2

\* dispatch of a keydown to the listeners registered when it started; a listener
\* removed by an earlier one in the same dispatch is not run
RECURSIVE dispatch(_, _, _)
dispatch(w, snapshot, key) ==
  IF snapshot = <<>> THEN w
  ELSE LET h == Head(snapshot)
       IN IF h \in Range(w.listeners)
          THEN dispatch(runKeyHandler(w, h, key), Tail(snapshot), key)
          ELSE dispatch(w, Tail(snapshot), key)

\* fetchImages() without the test of response.ok
fetchImagesIgnoresStatus(resp) ==
  IF resp.rejected THEN [threw |-> TRUE, value |-> <<>>]
  ELSE IF resp.error THEN [threw |-> TRUE, value |-> <<>>]
  ELSE [threw |-> FALSE, value |-> resp.data]

\* fetchImages(): what it returns or throws for a settled fetch
fetchImages(resp) ==
  IF resp.rejected THEN [threw |-> TRUE, value |-> <<>>]
  ELSE IF ~(resp.status \in 200..299) THEN [threw |-> TRUE, value |-> <<>>]
  ELSE IF resp.error THEN [threw |-> TRUE, value |-> <<>>]
  ELSE [threw |-> FALSE, value |-> resp.data]

\* createImageItem(image, index): the item and the index its click handler holds
createImageItem(image, index) == [src |-> image, index |-> index]

\* renderGallery() that prepends each item instead of appending it
renderGalleryPrepends(imgs) ==
  [i \in 1..Len(imgs) |-> createImageItem(imgs[Len(imgs) + 1 - i], Len(imgs) - i)]

\* renderGallery(): the items of the new .tg-grid, in order
renderGallery(imgs) == [i \in 1..Len(imgs) |-> createImageItem(imgs[i], i - 1)]

\* the img of createImageItem(image, index): dataSrc is dataset.src, lazy and loaded
\* the classes tg-lazy and tg-loaded, onload whether img.onload is set, loading
\* whether a load of src is in flight; swaps counts the assignments to src and
\* seen the entries that reported the img as intersecting (history)
thumbnail(image) ==
  [dataSrc |-> image, src |-> "", lazy |-> TRUE, loaded |-> FALSE, onload |-> FALSE,
   loading |-> FALSE, swaps |-> 0, seen |-> 0]

\* the imgs of the grid that renderGallery() builds, in order
renderThumbs(imgs) == [i \in 1..Len(imgs) |-> thumbnail(imgs[i])]

\* setupLazyLoading(): the elements handed to observer.observe(), as positions
setupLazyLoading(th) == { i \in 1..Len(th) : th[i].lazy }

\* the body of the observer callback for one intersecting entry, on its target
swapSrc(t) ==
  [t EXCEPT !.src = t.dataSrc, !.lazy = FALSE, !.onload = TRUE, !.loading = TRUE,
            !.swaps = @ + 1, !.seen = @ + 1]

\* the observer callback without observer.unobserve(img)
observerCallbackKeepsObserving(c, entries) ==
  [c EXCEPT !.thumbs = [i \in 1..Len(c.thumbs) |->
                          IF i \in DOMAIN entries /\ entries[i]
                          THEN swapSrc(c.thumbs[i]) ELSE c.thumbs[i]]]

\* the observer callback of setupLazyLoading(): entries maps the position of each
\* reported target to its isIntersecting
observerCallback(c, entries) ==
  [c EXCEPT !.thumbs = [i \in 1..Len(c.thumbs) |->
                          IF i \in DOMAIN entries /\ entries[i]
                          THEN swapSrc(c.thumbs[i]) ELSE c.thumbs[i]],
            !.targets = @ \ { i \in DOMAIN entries : entries[i] }]

\* ---------------------------------------------------------------- actions
Count(log, fn) == Cardinality({ i \in 1..Len(log) : log[i].fn = fn })

\* write a page record back, with the history of the calls the event made
CommitFrom(w, key, item, dx, dy) ==
  /\ currentImageIndex' = w.idx
  /\ keyHandler' = w.keyHandler
  /\ doc' = w.doc
  /\ listeners' = w.listeners
  /\ overflow' = w.overflow
  /\ timers' = w.timers
  /\ nextId' = w.nextId
  /\ IF w.log = <<>>
     THEN UNCHANGED << last, afterClose >>
     ELSE LET hist == << last >> \o w.log
              e == w.log[Len(w.log)]
          IN /\ last' = [e EXCEPT !.key = key,
                                  !.item = item,
                                  !.dx = dx,
                                  !.dy = dy,
                                  !.others = Len(w.log) - Count(w.log, e.fn),
                                  !.count = Count(w.log, e.fn),
                                  !.wasOpen = \E p \in 1..Len(doc) : IsOpen(Page, doc[p].id)]
             /\ afterClose' = (hist[Len(hist) - 1].fn = "close")

Commit(w, key, item) == CommitFrom(w, key, item, 0, 0)

\* a constructor without the return after showError
constructorFallsThrough(fid) == FALSE

\* whether the constructor returns after showError, before this.init()
constructorReturnsEarly(fid) == fid = ""

\* init() up to its await without the showLoading() call
initStartSkipsLoading(c) ==
  [c EXCEPT !.pending = @ + 1, !.requests = @ + 1]

\* init() up to its await: showLoading(), then fetch() is issued
\* (showLoading() replaces the container's content: the thumbnails of an earlier
\* grid leave the document and can intersect nothing from then on)
initStart(c) ==
  [c EXCEPT !.container = showLoading, !.grid = <<>>, !.pending = @ + 1,
            !.requests = @ + 1, !.everLoading = TRUE,
            !.thumbs = <<>>, !.targets = {}]

\* new TattooGallery(container) on a container whose dataset.folderId is fid:
\* the fields of the instance and its container when the constructor returns
constructor(fid) ==
  LET c == [folderId |-> fid, images |-> <<>>, currentImageIndex |-> 0,
            container |-> Blank, grid |-> <<>>, pending |-> 0, requests |-> 0,
            everLoading |-> FALSE, thumbs |-> <<>>, targets |-> {}]
  IN IF constructorReturnsEarly(fid)
     THEN [c EXCEPT !.container = showError(MissingMsg)]
     ELSE initStart(c)

\* the page after its galleries have been constructed (initGalleries, or the
\* exposed constructor for a container without the attribute)
Init ==
  /\ \E fids \in [Galleries -> FolderIds] :
       /\ folderId = [g \in Galleries |-> constructor(fids[g]).folderId]
       /\ images = [g \in Galleries |-> constructor(fids[g]).images]
       /\ currentImageIndex = [g \in Galleries |-> constructor(fids[g]).currentImageIndex]
       /\ container = [g \in Galleries |-> constructor(fids[g]).container]
       /\ grid = [g \in Galleries |-> constructor(fids[g]).grid]
       /\ pending = [g \in Galleries |-> constructor(fids[g]).pending]
       /\ requests = [g \in Galleries |-> constructor(fids[g]).requests]
       /\ everLoading = [g \in Galleries |-> constructor(fids[g]).everLoading]
       /\ thumbs = [g \in Galleries |-> constructor(fids[g]).thumbs]
       /\ targets = [g \in Galleries |-> constructor(fids[g]).targets]
  /\ observers = [g \in Galleries |-> 0]
  /\ settledWith = [g \in Galleries |-> NoResponse]
  /\ keyHandler = [g \in Galleries |-> 0]
  /\ doc = <<>>
  /\ listeners = <<>>
  /\ overflow = ""
  /\ timers = <<>>
  /\ nextId = 1
  /\ last = NoCall
  /\ afterClose = FALSE

\* init() from the point its fetch has settled with resp, without the test for
\* an empty list
initRestAlwaysRenders(c, resp) ==
  LET r == fetchImages(resp)
  IN IF r.threw
     THEN [c EXCEPT !.container = showError(FailedMsg)]
     ELSE [c EXCEPT !.images = r.value,
                    !.container = GridShown,
                    !.grid = renderGallery(r.value),
                    !.thumbs = renderThumbs(r.value),
                    !.targets = setupLazyLoading(renderThumbs(r.value)),
                    !.observers = @ + 1]

\* init() from the point its fetch has settled with resp: the catch block when
\* fetchImages() threw, else the assignment to this.images and the branch on
\* its length
initRest(c, resp) ==
  LET r == fetchImages(resp)
  IN IF r.threw
     THEN [c EXCEPT !.container = showError(FailedMsg)]
     ELSE IF Len(r.value) = 0
          THEN [c EXCEPT !.images = r.value, !.container = showEmpty]
          ELSE [c EXCEPT !.images = r.value,
                         !.container = GridShown,
                         !.grid = renderGallery(r.value),
                         !.thumbs = renderThumbs(r.value),
                         !.targets = setupLazyLoading(renderThumbs(r.value)),
                         !.observers = @ + 1]

\* the rest of init(): the fetch of one pending run settles with resp
FetchSettle(g, resp) ==
  /\ pending[g] > 0
  /\ pending' = [pending EXCEPT ![g] = @ - 1]
  /\ settledWith' = [settledWith EXCEPT ![g] = resp]
  /\ LET c == initRest([images |-> images[g], container |-> container[g],
                        grid |-> grid[g], thumbs |-> thumbs[g],
                        targets |-> targets[g], observers |-> observers[g]], resp)
     IN /\ images' = [images EXCEPT ![g] = c.images]
        /\ container' = [container EXCEPT ![g] = c.container]
        /\ grid' = [grid EXCEPT ![g] = c.grid]
        /\ thumbs' = [thumbs EXCEPT ![g] = c.thumbs]
        /\ targets' = [targets EXCEPT ![g] = c.targets]
        /\ observers' = [observers EXCEPT ![g] = c.observers]
  /\ UNCHANGED << folderId, currentImageIndex, keyHandler, doc,
                  listeners, overflow, timers, nextId, requests, everLoading,
                  last, afterClose >>

Rest == << folderId, images, container, grid, pending, requests, everLoading,
           thumbs, targets, observers, settledWith >>

\* click on the j-th .tg-item of the grid of g
ClickItem(g, j) ==
  /\ container[g] = GridShown
  /\ j \in 1..Len(grid[g])
  /\ nextId <= MaxOpens
  /\ Commit(openLightbox(Page, g, grid[g][j].index), "", j - 1)
  /\ UNCHANGED Rest

\* click on the close button, the overlay or the content background of the
\* lightbox at position p
ClickClose(p) ==
  /\ p \in 1..Len(doc)
  /\ Commit(closeLightbox(Page, doc[p].g, doc[p].id), "", -1)
  /\ UNCHANGED Rest

\* click on the previous button of the lightbox at position p
ClickPrev(p) ==
  /\ p \in 1..Len(doc)
  /\ doc[p].prev # "none"
  /\ Commit(prevImage(Page, doc[p].g), "", -1)
  /\ UNCHANGED Rest

\* click on the next button of the lightbox at position p
ClickNext(p) ==
  /\ p \in 1..Len(doc)
  /\ doc[p].next # "none"
  /\ Commit(nextImage(Page, doc[p].g), "", -1)
  /\ UNCHANGED Rest

\* a keydown event on the document
KeyDown(key) ==
  /\ listeners # <<>>
  /\ Commit(dispatch(Page, listeners, key), key, -1)
  /\ UNCHANGED Rest

\* whether a gesture from touch a to touch b is a vertical one
Vertical(a, b) == Abs(b.y - a.y) > Abs(b.x - a.x)

\* a touch on the image container of the lightbox at position p, from a to b:
\* the touchstart listener stores a.x in touchStartX and the touchend listener
\* calls handleSwipe(touchStartX, b.x). touchStartX is read by this touchend only,
\* so the two listeners are taken as one step
Swipe(p, a, b) ==
  /\ p \in 1..Len(doc)
  /\ CommitFrom(handleSwipe(Page, doc[p].g, a.x, b.x), "", -1, a.x - b.x, a.y - b.y)
  /\ UNCHANGED Rest

\* the load that updateLightboxImage() started on the image of the lightbox at
\* position p ends, with a load event (ok) or an error event; the image is at
\* opacity 0 exactly while such a load is under way
ImgLoaded(p, ok) ==
  /\ p \in 1..Len(doc)
  /\ doc[p].opacity = "0"
  /\ Commit(IF ok THEN imgOnLoad(Page, p) ELSE imgOnError(Page, p), "", -1)
  /\ UNCHANGED Rest

\* a timer callback that removes every .tg-lightbox of the document
removeEveryLightbox(d, id) == <<>>

\* lightbox.remove() on the element the closure of the timer holds
removeLightbox(d, id) == SelectSeq(d, LAMBDA lb : lb.id # id)

\* the oldest removal timer fires: lightbox.remove()
Timer ==
  /\ timers # <<>>
  /\ timers' = Tail(timers)
  /\ doc' = removeLightbox(doc, Head(timers))
  /\ UNCHANGED << currentImageIndex, keyHandler, listeners, overflow, nextId,
                  last, afterClose >>
  /\ UNCHANGED Rest

RECURSIVE Sum(_, _)
Sum(f, S) == IF S = {} THEN 0
             ELSE LET x == CHOOSE y \in S : TRUE IN f[x] + Sum(f, S \ {x})

\* init() calls made so far beyond the one of each constructor
Reinits == Sum(requests, Galleries) - Cardinality({ g \in Galleries : folderId[g] # "" })

\* a host script calls init() again on an instance that has a folder id
Reinit(g) ==
  /\ folderId[g] # ""
  /\ Reinits < MaxReinits
  /\ LET c == initStart([container |-> container[g], grid |-> grid[g],
                         pending |-> pending[g], requests |-> requests[g],
                         everLoading |-> everLoading[g], thumbs |-> thumbs[g],
                         targets |-> targets[g]])
     IN /\ thumbs' = [thumbs EXCEPT ![g] = c.thumbs]
        /\ targets' = [targets EXCEPT ![g] = c.targets]
        /\ container' = [container EXCEPT ![g] = c.container]
        /\ grid' = [grid EXCEPT ![g] = c.grid]
        /\ pending' = [pending EXCEPT ![g] = c.pending]
        /\ requests' = [requests EXCEPT ![g] = c.requests]
        /\ everLoading' = [everLoading EXCEPT ![g] = c.everLoading]
  /\ UNCHANGED << folderId, images, currentImageIndex, keyHandler, doc,
                  listeners, overflow, timers, nextId, last, afterClose,
                  observers, settledWith >>

Lightboxes == << currentImageIndex, keyHandler, doc, listeners, overflow, timers,
                 nextId, last, afterClose >>

\* the browser runs the observer callback of g with entries for some of the
\* targets the observer observes, each target reported once
Intersect(g, entries) ==
  /\ DOMAIN entries # {} /\ DOMAIN entries \subseteq targets[g]
  /\ LET c == observerCallback([thumbs |-> thumbs[g], targets |-> targets[g]], entries)
     IN /\ thumbs' = [thumbs EXCEPT ![g] = c.thumbs]
        /\ targets' = [targets EXCEPT ![g] = c.targets]
  /\ UNCHANGED << folderId, images, container, grid, pending, requests, everLoading,
                  observers, settledWith >>
  /\ UNCHANGED Lightboxes

\* the load of the i-th thumbnail of g ends: its load event runs img.onload when
\* that is set (ok), or the load fails, which the widget does not handle
ThumbLoaded(g, i, ok) ==
  /\ i \in 1..Len(thumbs[g])
  /\ thumbs[g][i].loading
  /\ thumbs' = [thumbs EXCEPT ![g][i] =
                  [@ EXCEPT !.loading = FALSE,
                            !.loaded = @ \/ (ok /\ thumbs[g][i].onload)]]
  /\ UNCHANGED << folderId, images, container, grid, pending, requests, everLoading,
                  targets, observers, settledWith >>
  /\ UNCHANGED Lightboxes

\* the entries of one callback: isIntersecting for each reported position
Entries == UNION { [S -> BOOLEAN] : S \in SUBSET (1..3) }

NextLazy ==
  \/ \E g \in Galleries : \E resp \in Responses(g) : FetchSettle(g, resp)
  \/ \E g \in Galleries, entries \in Entries : Intersect(g, entries)
  \/ \E g \in Galleries, i \in 1..3, ok \in BOOLEAN : ThumbLoaded(g, i, ok)

\* the grids and their lazily loaded thumbnails; no lightbox method reads or writes
\* a thumbnail, and the observer callback touches nothing but its target
SpecLazy == Init /\ [][NextLazy]_vars

Next ==
  \/ \E g \in Galleries : \E resp \in Responses(g) : FetchSettle(g, resp)
  \/ \E g \in Galleries, j \in 1..3 : ClickItem(g, j)
  \/ \E p \in 1..MaxOpens : ClickClose(p)
  \/ \E p \in 1..MaxOpens : ClickPrev(p)
  \/ \E p \in 1..MaxOpens : ClickNext(p)
  \/ \E key \in Keys : KeyDown(key)
  \/ \E p \in 1..MaxOpens, t \in Gestures : Swipe(p, t.a, t.b)
  \/ Timer

\* the widget driven by the page: fetch results, clicks, keys, timers
Spec == Init /\ [][Next]_vars

NextMedia == Next \/ \E p \in 1..MaxOpens, ok \in BOOLEAN : ImgLoaded(p, ok)

\* a page whose second container has no folder id
InitMedia == Init /\ folderId[2] = ""

\* the widget of one working gallery, with the load and error events of the
\* lightbox images as well
SpecMedia == InitMedia /\ [][NextMedia]_vars

NextApi == Next \/ \E g \in Galleries : Reinit(g)

\* the same, with a host script that may call init() again
SpecApi == Init /\ [][NextApi]_vars

\* ------------------------------------------------------------ properties
N(g) == Len(images[g])

\* the lightbox the instance g opened last, as a position in doc (0: not in the document)
LatestOf(g) == PosOf(doc, keyHandler[g])

\* C1: nextImage() leaves currentImageIndex unchanged when it equals N-1 and
\* otherwise increases it by exactly 1; prevImage() leaves it unchanged when it
\* equals 0 and otherwise decreases it by exactly 1 (last.arg is the index at the call).
C1_NavigationStep ==
  /\ last.fn = "next" =>
       currentImageIndex[last.g] = IF last.arg = N(last.g) - 1 THEN last.arg ELSE last.arg + 1
  /\ last.fn = "prev" =>
       currentImageIndex[last.g] = IF last.arg = 0 THEN last.arg ELSE last.arg - 1

\* nextImage() was called at the last of three images and left the index there
C1_Witness ==
  /\ last.fn = "next" /\ N(last.g) = 3 /\ last.arg = 2
  /\ currentImageIndex[last.g] = 2

\* C2: whenever a lightbox element of an instance is in the document,
\* 0 <= currentImageIndex < images.length holds for that instance.
C2_IndexInRange ==
  \A p \in 1..Len(doc) :
    0 <= currentImageIndex[doc[p].g] /\ currentImageIndex[doc[p].g] < N(doc[p].g)

\* C3: in the open lightbox of an instance (the one it opened last, not yet found
\* by a close), the previous button is hidden iff currentImageIndex = 0 and the
\* next button is hidden iff currentImageIndex = N-1.
C3_NavButtons ==
  \A g \in Galleries :
    (LatestOf(g) # 0 /\ IsOpen(Page, keyHandler[g])) =>
      /\ (doc[LatestOf(g)].prev = "none") <=> (currentImageIndex[g] = 0)
      /\ (doc[LatestOf(g)].next = "none") <=> (currentImageIndex[g] = N(g) - 1)

\* C4: at most one lightbox element is in the document at any moment.
C4_AtMostOneLightbox == Len(doc) <= 1

\* C5: once closeLightbox() has been called from an open lightbox (last.via) and
\* every removal timer has fired, that lightbox is no longer in the document.
C5_CloseRemoves ==
  (last.fn = "close" /\ last.via # 0 /\ timers = <<>>) => PosOf(doc, last.via) = 0

\* C6: once no lightbox element remains in the document, no keydown listener
\* attached by openLightbox() is still registered on the document.
C6_NoListenerLeft == (doc = <<>>) => (listeners = <<>>)

\* C7: closeLightbox() followed by openLightbox(k) yields a lightbox of the
\* instance in the document, with currentImageIndex = k, whether or not the
\* removal timer of the close has fired.
C7_ReopenAtK ==
  (last.fn = "open" /\ afterClose) =>
    /\ currentImageIndex[last.g] = last.arg
    /\ \E p \in 1..Len(doc) : doc[p].g = last.g /\ doc[p].id = nextId - 1

\* openLightbox(2) came right after a closeLightbox() whose timer is still pending
C7_Witness ==
  /\ last.fn = "open" /\ afterClose /\ last.arg = 2
  /\ timers # <<>> /\ Len(doc) = 2 /\ currentImageIndex[last.g] = 2

\* C8: while a lightbox is open, a keydown of Escape calls closeLightbox() exactly
\* once, ArrowLeft prevImage() exactly once, ArrowRight nextImage() exactly once
\* (a call made by a key handler carries its key in last.key).
C8_KeyCallsOnce ==
  (last.key # "" /\ last.wasOpen) =>
    /\ last.count = 1
    /\ last.key = "Escape" => last.fn = "close"
    /\ last.key = "ArrowLeft" => last.fn = "prev"
    /\ last.key = "ArrowRight" => last.fn = "next"

\* C9: after a fetch that returned N >= 1 images the grid holds exactly N items in
\* the order of the list, and a click on item k opens the lightbox at index k.
C9_GridAndClick ==
  /\ \A g \in Galleries :
       N(g) >= 1 =>
         /\ container[g] = GridShown
         /\ Len(grid[g]) = N(g)
         /\ \A i \in 1..N(g) : grid[g][i].src = images[g][i]
  /\ (last.fn = "open" /\ last.item >= 0) =>
       /\ currentImageIndex[last.g] = last.item
       /\ \E p \in 1..Len(doc) : /\ doc[p].id = nextId - 1
                                 /\ doc[p].src = images[last.g][last.item + 1]

\* the third item of a grid of three was clicked
C9_Witness ==
  /\ last.fn = "open" /\ last.item = 2 /\ Len(grid[last.g]) = 3
  /\ currentImageIndex[last.g] = 2

\* C10: an instance constructed without a folder id shows the error state, has
\* issued no network request and has never shown the loading state.
C10_MissingFolderId ==
  \A g \in Galleries :
    folderId[g] = "" =>
      /\ container[g] = showError(MissingMsg)
      /\ requests[g] = 0
      /\ pending[g] = 0
      /\ ~everLoading[g]

\* one instance has no folder id while the other one has fetched and opened a lightbox
C10_Witness ==
  \E g \in Galleries :
    /\ folderId[g] = "" /\ container[g].cls = "tg-error"
    /\ \E p \in 1..Len(doc) : doc[p].g # g

\* a fetch of g has settled with a success status and this list, and no other
\* fetch of g is under way
Returned(g, list) ==
  /\ pending[g] = 0
  /\ ~settledWith[g].rejected /\ settledWith[g].status \in 200..299
  /\ ~settledWith[g].error /\ settledWith[g].data = list

\* C11: when the fetch succeeded with an empty list, the container shows the empty
\* state, the grid has no items (no thumbnails either) and no IntersectionObserver
\* was constructed or observes anything.
C11_EmptyList ==
  \A g \in Galleries :
    Returned(g, <<>>) =>
      /\ container[g] = showEmpty
      /\ grid[g] = <<>> /\ thumbs[g] = <<>>
      /\ observers[g] = 0 /\ targets[g] = {}

\* one fetch returned the empty list while the other gallery shows its grid
C11_Witness ==
  \E g \in Galleries, h \in Galleries :
    /\ Returned(g, <<>>) /\ container[g].cls = "tg-empty"
    /\ h # g /\ container[h] = GridShown /\ observers[h] = 1

\* the fetch of g has failed (a rejection, a non-success status or a body with an
\* error field), and no other fetch of g is under way
Failed(g) ==
  /\ requests[g] > 0 /\ pending[g] = 0
  /\ \/ settledWith[g].rejected
     \/ settledWith[g].status \notin 200..299
     \/ settledWith[g].error

\* C12: after a fetch failure (a non-success HTTP status or a body with an error
\* field) the container shows the error state with the one generic message, and
\* no grid item or thumbnail has been rendered.
C12_FetchFailure ==
  \A g \in Galleries :
    Failed(g) =>
      /\ container[g] = showError(FailedMsg)
      /\ grid[g] = <<>> /\ thumbs[g] = <<>> /\ observers[g] = 0

\* one fetch ended with status 500 and the other with an error field in its body
C12_Witness ==
  \E g \in Galleries, h \in Galleries :
    /\ Failed(g) /\ settledWith[g].status = 500
    /\ Failed(h) /\ settledWith[h].status = 200 /\ settledWith[h].error
    /\ container[g].cls = "tg-error" /\ container[h].cls = "tg-error"

\* C13: an instance with a folder id shows the loading state from construction
\* until its fetch settles; from then on it shows the one of error state, empty
\* state and grid that the settled fetch determines, and no further fetch is
\* issued (settledWith is written only when a fetch settles).
C13_LoadingThenSettled ==
  \A g \in Galleries :
    folderId[g] # "" =>
      /\ everLoading[g] /\ requests[g] = 1 /\ pending[g] \in {0, 1}
      /\ pending[g] = 1 => container[g] = showLoading /\ settledWith[g] = NoResponse
      /\ pending[g] = 0 =>
           container[g] = IF Failed(g) THEN showError(FailedMsg)
                          ELSE IF Returned(g, <<>>) THEN showEmpty
                          ELSE GridShown

\* one instance still shows the loading state while the other, whose fetch has
\* settled, went through an open and a close of its lightbox and shows its grid
C13_Witness ==
  \E g \in Galleries, h \in Galleries :
    /\ folderId[g] # "" /\ pending[g] = 1 /\ container[g] = showLoading
    /\ folderId[h] # "" /\ pending[h] = 0 /\ container[h] = GridShown
    /\ last.fn = "close" /\ last.g = h /\ doc = <<>>

\* the call last was made by a touchend listener
ByTouch == last.dx # 0 \/ last.dy # 0

\* C14: a call made by the touchend listener comes from a gesture whose horizontal
\* distance exceeds the threshold (a gesture that does not exceed it invokes
\* neither method); a leftward one (startX - endX > 50) has invoked nextImage()
\* exactly once and nothing else, and the index moved as nextImage() moves it.
C14_Swipe ==
  ByTouch =>
    /\ Abs(last.dx) > swipeThreshold
    /\ last.dx > swipeThreshold =>
         /\ last.fn = "next" /\ last.count = 1 /\ last.others = 0
         /\ last.arg < N(last.g) - 1 => currentImageIndex[last.g] = last.arg + 1

\* a horizontal swipe of 51 to the left at index 0 of three images
C14_Witness ==
  /\ last.dx = swipeThreshold + 1 /\ last.dy = 0
  /\ last.fn = "next" /\ last.arg = 0 /\ N(last.g) = 3
  /\ currentImageIndex[last.g] = 1

\* C15: a vertical gesture (vertical displacement larger than the horizontal one)
\* invokes neither nextImage() nor prevImage().
C15_VerticalIgnored ==
  ~(ByTouch /\ Vertical(Touch(last.dx, last.dy), Touch(0, 0))
            /\ last.fn \in {"next", "prev"})

\* C16: a thumbnail's src is assigned at most once, by the first entry that reports
\* it as intersecting; from then on the observer no longer observes it, and until
\* then it does; it carries tg-loaded only when its src has been assigned.
C16_LazySwapOnce ==
  \A g \in Galleries : \A i \in 1..Len(thumbs[g]) :
    LET t == thumbs[g][i]
    IN /\ t.swaps <= 1
       /\ t.swaps = (IF t.seen >= 1 THEN 1 ELSE 0)
       /\ (i \in targets[g]) <=> (t.swaps = 0)
       /\ t.swaps = 0 => t.src = "" /\ t.lazy /\ ~t.loading
       /\ t.swaps = 1 => t.src = t.dataSrc /\ ~t.lazy
       /\ t.loaded => t.swaps = 1 /\ ~t.loading

\* of three thumbnails the first has loaded, the second is loading and the third
\* has not intersected yet
C16_Witness ==
  \E g \in Galleries :
    /\ Len(thumbs[g]) = 3
    /\ thumbs[g][1].loaded /\ thumbs[g][1].src = "b"
    /\ thumbs[g][2].loading /\ ~thumbs[g][2].loaded
    /\ targets[g] = {3} /\ thumbs[g][3].src = ""

\* the page with every dimmed lightbox image shown as a loaded one
Undimmed(w) ==
  [w EXCEPT !.doc = [q \in 1..Len(w.doc) |->
                       [w.doc[q] EXCEPT !.opacity = IF @ = "0.3" THEN "1" ELSE @]]]

\* C17: a step in which the image of a lightbox goes from loading (opacity 0) to
\* dimmed (opacity 0.3) changes nothing else: currentImageIndex, the lightbox
\* elements, the keydown listeners, this.keyHandler, the scroll lock and the
\* removal timers stay as they are; and a nextImage() or prevImage() that follows
\* it does to the page what it does to the same page without any dimming.
C17_ErrorOnlyDims ==
  [][ \A p \in 1..Len(doc) :
        (Len(doc') = Len(doc) /\ doc[p].opacity = "0" /\ doc'[p].opacity = "0.3") =>
          /\ doc' = [doc EXCEPT ![p].opacity = "0.3"]
          /\ UNCHANGED << currentImageIndex, listeners, keyHandler, overflow,
                          timers, nextId, images, container, grid >>
          /\ \A g \in Galleries :
               /\ Undimmed(nextImage(Page', g)) = nextImage(Undimmed(Page'), g)
               /\ Undimmed(prevImage(Page', g)) = prevImage(Undimmed(Page'), g) ]_vars

\* the image reached by nextImage() failed to load: the only lightbox shows it
\* dimmed, at index 1 of three, with its key handler registered
C17_Witness ==
  /\ Len(doc) = 1 /\ doc[1].opacity = "0.3" /\ doc[1].counter = << 2, 3 >>
  /\ last.fn = "next" /\ currentImageIndex[doc[1].g] = 1
  /\ listeners = << [id |-> doc[1].id, g |-> doc[1].g] >>
  /\ overflow = "hidden"

\* C18: no step of an instance changes what the lightbox of the other instance
\* shows: every lightbox in the document shows an image of the instance that
\* opened it, with that instance's image count (the two image lists are disjoint).
C18_Independent ==
  \A p \in 1..Len(doc) :
    /\ doc[p].src \in Range(images[doc[p].g])
    /\ doc[p].counter[2] = N(doc[p].g)

\* C19: whenever no lightbox element is in the document, the page scroll is not
\* locked (body.style.overflow is '').
C19_ScrollRestored == (doc = <<>>) => (overflow = "")

\* two lightboxes were created and both have been removed again
C19_Witness ==
  /\ doc = <<>> /\ timers = <<>> /\ nextId = 3 /\ overflow = ""
  /\ last.fn = "close"

\* C20: a step in which a removal timer fires removes the element that the close
\* which set the timer found, and nothing else: every lightbox that no close has
\* found (among them one opened after that close) is in the document afterwards,
\* unchanged.
C20_TimerRemovesOnlyFound ==
  [][ Len(timers') < Len(timers) =>
        /\ PosOf(doc', Head(timers)) = 0
        /\ \A p \in 1..Len(doc) :
             doc[p].id # Head(timers) => \E q \in 1..Len(doc') : doc'[q] = doc[p] ]_vars

\* openLightbox() came right after a closeLightbox(); the timer of the close has
\* fired and the lightbox of that open is the one left in the document
C20_Witness ==
  /\ last.fn = "open" /\ afterClose /\ timers = <<>>
  /\ Len(doc) = 1 /\ doc[1].id = nextId - 1 /\ doc[1].id = 2
  /\ overflow = "hidden"

====
